---- MODULE Spec2Model ----
(***************************************************************************)
(* Model of trade-log-formatter.py: consolidation of raw executions,       *)
(* FIFO matching of consolidated trades into ledger rows, and the          *)
(* persistence of the ledger ('Trades' sheet of the master workbook).      *)
(*                                                                         *)
(* Conventions                                                             *)
(*   - Python None / NaN is the empty tuple <<>>, a present value v is     *)
(*     <<v>> (None, Some, Val).                                            *)
(*   - Dates ('YYYY-MM-DD') and times ('HH:MM:SS') are integers; string    *)
(*     order of these formats is chronological order.                      *)
(*   - A price is an exact rational <<num, den>> in lowest terms.          *)
(*   - Ledger rows keep the code's field values: Side is "BUY" or "SELL",  *)
(*     Qty is signed (negative for SELL rows), ExitQty has the opposite    *)
(*     sign of Qty.                                                        *)
(***************************************************************************)
EXTENDS Integers, Sequences, FiniteSets, TLC

VARIABLES
    master,        \* rows of the persisted 'Trades' sheet of the master file
    runs,          \* number of update_master_sheet calls completed
    ingested,      \* number of consolidated trades handed to update_master_sheet so far
    pc,            \* position in process_folder / in the function under call
    raw,           \* the executions gathered by process_folder (all_trades)
    df_master,     \* update_master_sheet's in-memory df_master before matching
    trades,        \* match_trades_fifo: the sorted trade list
    i,             \* match_trades_fifo: number of trades of the loop already processed
    positions,     \* match_trades_fifo: positions, in dict insertion order
    given,         \* the executions as they were before consolidate_trades was called
    returned,      \* what the last call of consolidate_trades returned or raised
    first,         \* what the first call of consolidate_trades returned or raised
    outcome,       \* how the last update_master_sheet or reset_master_sheet call ended
    open_positions,\* what check_open_positions returned after the last run (None before)
    folder,        \* the DailyTradeReport.*.pdf files present in the folder
    processed,     \* the list kept in processed_files.json
    extracted,     \* the files the last gather_all_trades call extracted
    exists,        \* os.path.exists(master_file)
    backup,        \* the 'Trades' rows of the backup file (None when there is no file)
    reset_backup,  \* the 'Trades' rows of the last master_pre_reset file (None when none)
    resets         \* number of reset_master_sheet calls

vars == <<master, runs, ingested, pc, raw, df_master, trades, i, positions,
          given, returned, first, outcome, open_positions,
          folder, processed, extracted, exists, backup, reset_backup, resets>>

\* the variables of the folder and of the files next to the master file
fileVars == <<folder, processed, extracted>>
backupVars == <<exists, backup, reset_backup, resets>>

\* the variables of consolidate_trades' callers, of the run's end and of the matcher
consolidationVars == <<given, returned, first>>
reportVars == <<outcome, open_positions>>
matcherVars == <<df_master, trades, i, positions>>

----------------------------------------------------------------------------
(* Bounds and input domains *)

MaxBatch == 2      \* longest batch of trades of several symbols (one price)
MaxDeep == 4       \* longest batch of trades of one symbol (several prices)
MaxRuns == 2       \* update_master_sheet calls per behaviour
MaxIngest == 2     \* trades over all runs of a behaviour, when there are several runs

Symbols == {"IONQ", "CRWD"}
Dates == {1, 2}
Times == {1, 2}
Quantities == {1, 2}
Prices == {<<1, 1>>, <<2, 1>>}

None == <<>>
Some(v) == <<v>>
Val(x) == x[1]

Min(a, b) == IF a < b THEN a ELSE b
Abs(a) == IF a < 0 THEN -a ELSE a

RECURSIVE SumSeq(_)
SumSeq(s) == IF s = <<>> THEN 0 ELSE Head(s) + SumSeq(Tail(s))

----------------------------------------------------------------------------
(* Consolidated trades as update_master_sheet receives them *)

Trade(sym, d, t, side, q, p) ==
    [Symbol |-> sym, Date |-> d, Time |-> t, Side |-> side,
     Quantity |-> q, Price |-> p]

Key(t) == <<t.Symbol, t.Date, t.Side>>

TradesOver(syms, prices) ==
    { Trade(sym, d, t, side, q, p) :
        sym \in syms, d \in Dates, t \in Times, side \in {"LONG", "SHORT"},
        q \in Quantities, p \in prices }

\* Lists of n trades of dom with pairwise distinct (Symbol, Date, Side): what
\* consolidate_trades returns (one dict value per key, in insertion order).
RECURSIVE ListsOfLen(_, _)
ListsOfLen(dom, n) ==
    IF n = 0 THEN { <<>> }
    ELSE { Append(p[1], p[2]) :
             p \in { q \in ListsOfLen(dom, n - 1) \X dom :
                       \A k \in 1..Len(q[1]) : Key(q[1][k]) # Key(q[2]) } }

MaxLen == IF MaxBatch > MaxDeep THEN MaxBatch ELSE MaxDeep

\* the batches of n trades: of several symbols at one price up to MaxBatch, of
\* one symbol at several prices up to MaxDeep
InputsOfLen ==
    [n \in 1..MaxLen |->
        (IF n <= MaxBatch THEN ListsOfLen(TradesOver(Symbols, {<<1, 1>>}), n) ELSE {})
        \cup (IF n <= MaxDeep THEN ListsOfLen(TradesOver({"IONQ"}, Prices), n) ELSE {})]

\* Executions as gather_all_trades may hand them to consolidate_trades. Three
\* families: several keys (symbols, dates and the four Side strings), one key
\* per side with several times, quantities and prices, and executions with
\* non-positive quantities or prices.
MaxRaw == 3        \* longest list of executions

SideStrings == {"BUY", "SELL", "LONG", "SHORT"}

ExecutionFamilies ==
    { { Trade(sym, d, 1, side, 1, <<1, 1>>) :
          sym \in Symbols, d \in Dates, side \in SideStrings },
      { Trade("IONQ", 1, t, side, q, p) :
          t \in Times, side \in {"BUY", "SELL"}, q \in Quantities, p \in Prices },
      { Trade("IONQ", 1, 1, side, q, p) :
          side \in {"BUY", "SELL"}, q \in {-1, 0, 1}, p \in {<<0, 1>>, <<1, 1>>} } }

RawInputs == UNION { [1..n -> F] : n \in 1..MaxRaw, F \in ExecutionFamilies }

\* Trade lists as a caller may hand them to match_trades_fifo directly: in any
\* order, with quantities of either sign
MaxMatch == 3      \* longest list of trades handed to the matcher directly

\* Three families: one symbol at one time with quantities of either sign, one
\* symbol over several times (with one trade of a second symbol), and the same
\* with the Side strings of the extractor
MatchFamilies ==
    { { Trade("IONQ", d, 1, side, q, <<1, 1>>) :
          d \in Dates, side \in {"LONG", "SHORT"}, q \in {-1, 0, 1, 2} },
      { Trade("IONQ", 1, t, side, q, <<t, 1>>) :
          t \in {1, 2, 3}, side \in {"LONG", "SHORT"}, q \in Quantities }
        \cup { Trade("CRWD", 1, 1, "LONG", 1, <<1, 1>>) },
      { Trade("IONQ", 1, t, side, 1, <<1, 1>>) :
          t \in Times, side \in SideStrings } }

MatchInputs == UNION { [1..n -> F] : n \in 1..MaxMatch, F \in MatchFamilies }

----------------------------------------------------------------------------
(* consolidate_trades *)

RECURSIVE GCD(_, _)
GCD(a, b) == IF b = 0 THEN a ELSE GCD(b, a % b)

\* the rational n/d (d # 0) in lowest terms, with a positive denominator
Rat(n, d) ==
    LET sign == IF d < 0 THEN -1 ELSE 1
        g == GCD(Abs(n), Abs(d))
    IN  <<(sign * n) \div g, (sign * d) \div g>>

\* trade['Side'] = 'LONG' if trade['Side'] == 'BUY' else 'SHORT'
ToSide(side) == IF side = "BUY" THEN "LONG" ELSE "SHORT"

\* mutation: the average of the two prices, whatever the quantities
WeightedPriceUnweighted(eq, ep, tq, tp) ==
    Rat(ep[1] * tp[2] + tp[1] * ep[2], 2 * ep[2] * tp[2])

\* (existing qty * existing price + trade qty * trade price) / total_qty, exactly
WeightedPrice(eq, ep, tq, tp) ==
    Rat(eq * ep[1] * tp[2] + tq * tp[1] * ep[2], ep[2] * tp[2] * (eq + tq))

\* mutation: the earliest time for either side
TimeToUseEarliest(side, et, tt) == IF et < tt THEN et ELSE tt

\* max for SHORT, min for LONG
TimeToUse(side, et, tt) ==
    IF side = "SHORT" THEN (IF et > tt THEN et ELSE tt)
    ELSE (IF et < tt THEN et ELSE tt)

\* mutation: the merged trade keeps the quantity of the last execution
MergedLastQuantity(existing, trade) ==
    [Symbol |-> trade.Symbol, Date |-> trade.Date,
     Time |-> TimeToUse(trade.Side, existing.Time, trade.Time),
     Side |-> trade.Side,
     Quantity |-> trade.Quantity,
     Price |-> WeightedPrice(existing.Quantity, existing.Price,
                             trade.Quantity, trade.Price)]

\* the dict value written when the key is already present
Merged(existing, trade) ==
    [Symbol |-> trade.Symbol, Date |-> trade.Date,
     Time |-> TimeToUse(trade.Side, existing.Time, trade.Time),
     Side |-> trade.Side,
     Quantity |-> existing.Quantity + trade.Quantity,
     Price |-> WeightedPrice(existing.Quantity, existing.Price,
                             trade.Quantity, trade.Price)]

\* one iteration of the loop on `consolidated`, the dict's values in insertion
\* order (a value's key is its own Symbol, Date and Side)
ConsolidateOne(consolidated, trade0) ==
    LET trade == [trade0 EXCEPT !.Side = ToSide(trade0.Side)]
    IN  IF \E k \in 1..Len(consolidated) : Key(consolidated[k]) = Key(trade)
        THEN LET k == CHOOSE k \in 1..Len(consolidated) :
                               Key(consolidated[k]) = Key(trade)
             IN  [consolidated EXCEPT ![k] = Merged(consolidated[k], trade)]
        ELSE Append(consolidated, trade)

\* list(consolidated.values())
RECURSIVE consolidate_trades(_)
consolidate_trades(ts) ==
    IF ts = <<>> THEN <<>>
    ELSE ConsolidateOne(consolidate_trades(SubSeq(ts, 1, Len(ts) - 1)), ts[Len(ts)])

\* the caller's list after the call: every dict's Side was rewritten in place
SidesRewritten(ts) == [k \in 1..Len(ts) |-> [ts[k] EXCEPT !.Side = ToSide(ts[k].Side)]]

\* `/ total_qty` raises ZeroDivisionError at the first execution that joins a
\* group whose quantities then sum to 0
RECURSIVE ZeroDivision(_)
ZeroDivision(ts) ==
    /\ ts # <<>>
    /\ \/ ZeroDivision(SubSeq(ts, 1, Len(ts) - 1))
       \/ LET seen == consolidate_trades(SubSeq(ts, 1, Len(ts) - 1))
              trade == [ts[Len(ts)] EXCEPT !.Side = ToSide(ts[Len(ts)].Side)]
          IN  \E k \in 1..Len(seen) :
                 /\ Key(seen[k]) = Key(trade)
                 /\ seen[k].Quantity + trade.Quantity = 0

\* the number of executions the loop reached: all of them, or those up to the
\* one at which it raised
Reached(ts) ==
    IF ZeroDivision(ts)
    THEN CHOOSE n \in 1..Len(ts) :
            /\ ZeroDivision(SubSeq(ts, 1, n))
            /\ ~ZeroDivision(SubSeq(ts, 1, n - 1))
    ELSE Len(ts)

\* a call of consolidate_trades, as its caller sees it: the exception raised
\* ("" when none) and the list returned
CallConsolidate(ts) ==
    IF ZeroDivision(ts)
    THEN [raised |-> "ZeroDivisionError", value |-> <<>>]
    ELSE [raised |-> "", value |-> consolidate_trades(ts)]

\* the caller's list after the call: the Side of every execution the loop
\* reached was rewritten in place
ListAfterCall(ts) ==
    [k \in 1..Len(ts) |->
        IF k <= Reached(ts) THEN [ts[k] EXCEPT !.Side = ToSide(ts[k].Side)] ELSE ts[k]]

\* The executions of the test module's setUp (test_trades); prices are the
\* decimals 28.5, 30.905, 449.8 and 30.4, dates and times the digits of
\* 'YYYY-MM-DD' and 'HH:MM:SS'.
TestTrades ==
    << Trade("IONQ", 20250502, 94611, "BUY", 60, <<57, 2>>),
       Trade("IONQ", 20250502, 155916, "SELL", 125, <<6181, 200>>),
       Trade("CRWD", 20250505, 104857, "BUY", 5, <<2249, 5>>),
       Trade("IONQ", 20250505, 100617, "BUY", 100, <<152, 5>>) >>

\* every order of the same executions
Orderings(ts) ==
    { [k \in 1..Len(ts) |-> ts[f[k]]] :
        f \in { g \in [1..Len(ts) -> 1..Len(ts)] :
                  \A a, b \in 1..Len(ts) : a # b => g[a] # g[b] } }

----------------------------------------------------------------------------
(* match_trades_fifo *)

\* sorted(consolidated_trades, key=lambda x: (x['Date'], x['Time'])): tuple order
Before(a, b) == a.Date < b.Date \/ (a.Date = b.Date /\ a.Time < b.Time)

\* Python's sorted is stable: t goes after every element that is not after it.
InsertSorted(s, t) ==
    LET n == Cardinality({ j \in 1..Len(s) : ~Before(t, s[j]) })
    IN  SubSeq(s, 1, n) \o <<t>> \o SubSeq(s, n + 1, Len(s))

\* mutation: the trades are matched in the order given
UnsortedTrades(l) == l

RECURSIVE SortedTrades(_)
SortedTrades(l) ==
    IF l = <<>> THEN <<>>
    ELSE InsertSorted(SortedTrades(SubSeq(l, 1, Len(l) - 1)), l[Len(l)])

\* A ledger row (the new_trade dicts of match_trades_fifo)
NewRow(sym, q, side, price, time, date) ==
    [Symbol |-> sym, Qty |-> q, Side |-> side,
     EntryPrice |-> price, EntryTime |-> time, EntryDate |-> date,
     Notes |-> "",
     ExitQty |-> None, ExitPrice |-> None, ExitTime |-> None, ExitDate |-> None]

\* the new LONG row: Qty is the remaining quantity, Side 'BUY'
NewLongRow(sym, remaining_qty, price, time, date) ==
    NewRow(sym, remaining_qty, "BUY", price, time, date)

\* mutation: the uncovered remainder is booked as a BUY row
NewShortRowAsBuy(sym, remaining_sell, price, time, date) ==
    NewRow(sym, remaining_sell, "BUY", price, time, date)

\* the new SHORT row: Qty is minus the remaining quantity, Side 'SELL'
NewShortRow(sym, remaining_sell, price, time, date) ==
    NewRow(sym, -remaining_sell, "SELL", price, time, date)

\* pos['Exit Qty'] is None or pd.isna(pos['Exit Qty'])
ExitIsNull(pos) == pos.ExitQty = None

\* a row the SHORT branch may close / the LONG branch may cover
\* mutation: a LONG row is closable whatever its exit
ClosableLongAnyExit(pos) == pos.Side = "BUY"

ClosableLong(pos) == pos.Side = "BUY" /\ ExitIsNull(pos)
CoverableShort(pos) == pos.Side = "SELL" /\ ExitIsNull(pos)

\* mutation: the quantity closed is not capped by the lot's size
PosCloseUncapped(remaining_sell, q) == remaining_sell

\* pos_close = min(remaining_sell, pos['Qty'])
PosClose(remaining_sell, q) == Min(remaining_sell, q)

\* pos_cover = min(cover_qty, abs(pos['Qty']))
PosCover(cover_qty, q) == Min(cover_qty, Abs(q))

SetExit(pos, exit_qty, price, time, date) ==
    [pos EXCEPT !.ExitQty = Some(exit_qty), !.ExitPrice = Some(price),
                !.ExitTime = Some(time), !.ExitDate = Some(date)]

\* for pos in curr_pos['trades']: close LONG rows, oldest row first.
\* Returns the rows and the quantity still to sell.
RECURSIVE CloseLongs(_, _, _, _)
CloseLongs(rows, k, remaining_sell, trade) ==
    IF k > Len(rows) THEN [rows |-> rows, remaining |-> remaining_sell]
    ELSE IF ClosableLong(rows[k]) /\ remaining_sell > 0
         THEN LET pos_close == PosClose(remaining_sell, rows[k].Qty)
              IN  CloseLongs(
                    [rows EXCEPT ![k] = SetExit(rows[k], -pos_close, trade.Price,
                                                trade.Time, trade.Date)],
                    k + 1, remaining_sell - pos_close, trade)
         ELSE CloseLongs(rows, k + 1, remaining_sell, trade)

\* the order in which the LONG branch visits the rows: reversed(curr_pos['trades'])
CoverOrder(n) == [j \in 1..n |-> n + 1 - j]

\* for pos in reversed(curr_pos['trades']): cover SHORT rows, with the break at
\* cover_qty == 0. `order` is the visiting order, j the position in it.
RECURSIVE CoverShorts(_, _, _, _, _, _)
CoverShorts(rows, order, j, cover_qty, remaining_qty, trade) ==
    IF j > Len(order) THEN [rows |-> rows, remaining |-> remaining_qty]
    ELSE LET k == order[j] IN
         IF CoverableShort(rows[k]) /\ cover_qty > 0
         THEN LET pos_cover == PosCover(cover_qty, rows[k].Qty)
                  rows2 == [rows EXCEPT ![k] = SetExit(rows[k], pos_cover, trade.Price,
                                                       trade.Time, trade.Date)]
              IN  IF cover_qty - pos_cover = 0
                  THEN [rows |-> rows2, remaining |-> remaining_qty - pos_cover]
                  ELSE CoverShorts(rows2, order, j + 1, cover_qty - pos_cover,
                                   remaining_qty - pos_cover, trade)
         ELSE CoverShorts(rows, order, j + 1, cover_qty, remaining_qty, trade)

\* mutation: a LONG row is appended whether or not quantity remains
ApplyLongAlwaysRow(curr_pos, trade) ==
    LET qty == trade.Quantity
        covered ==
            IF curr_pos.qty < 0
            THEN CoverShorts(curr_pos.trades, CoverOrder(Len(curr_pos.trades)), 1,
                             Min(qty, Abs(curr_pos.qty)), qty, trade)
            ELSE [rows |-> curr_pos.trades, remaining |-> qty]
    IN  [qty |-> curr_pos.qty + qty,
         trades |-> Append(covered.rows,
                           NewLongRow(trade.Symbol, covered.remaining, trade.Price,
                                      trade.Time, trade.Date))]

\* the body of `if side == 'LONG':` on curr_pos = [qty, trades]
ApplyLong(curr_pos, trade) ==
    LET qty == trade.Quantity
        covered ==
            IF curr_pos.qty < 0
            THEN CoverShorts(curr_pos.trades, CoverOrder(Len(curr_pos.trades)), 1,
                             Min(qty, Abs(curr_pos.qty)), qty, trade)
            ELSE [rows |-> curr_pos.trades, remaining |-> qty]
    IN  [qty |-> curr_pos.qty + qty,
         trades |-> IF covered.remaining > 0
                    THEN Append(covered.rows,
                                NewLongRow(trade.Symbol, covered.remaining, trade.Price,
                                           trade.Time, trade.Date))
                    ELSE covered.rows]

\* mutation: the new SHORT row takes the whole trade quantity
ApplyShortWholeQty(curr_pos, trade) ==
    LET qty == trade.Quantity
        closed == CloseLongs(curr_pos.trades, 1, qty, trade)
    IN  [qty |-> curr_pos.qty - qty,
         trades |-> IF closed.remaining > 0
                    THEN Append(closed.rows,
                                NewShortRow(trade.Symbol, qty, trade.Price,
                                            trade.Time, trade.Date))
                    ELSE closed.rows]

\* the body of `elif side == 'SHORT':`
ApplyShort(curr_pos, trade) ==
    LET qty == trade.Quantity
        closed == CloseLongs(curr_pos.trades, 1, qty, trade)
    IN  [qty |-> curr_pos.qty - qty,
         trades |-> IF closed.remaining > 0
                    THEN Append(closed.rows,
                                NewShortRow(trade.Symbol, closed.remaining, trade.Price,
                                            trade.Time, trade.Date))
                    ELSE closed.rows]

\* one iteration of `for trade in trades:`; a Side that is neither 'LONG' nor
\* 'SHORT' falls through both branches
ApplyTrade(curr_pos, trade) ==
    IF trade.Side = "LONG" THEN ApplyLong(curr_pos, trade)
    ELSE IF trade.Side = "SHORT" THEN ApplyShort(curr_pos, trade)
    ELSE curr_pos

\* positions is a dict in insertion order: a sequence of [Symbol, qty, trades]
HasSymbol(pos, sym) == \E k \in 1..Len(pos) : pos[k].Symbol = sym
IndexOf(pos, sym) == CHOOSE k \in 1..Len(pos) : pos[k].Symbol = sym

\* if symbol not in positions: positions[symbol] = {'qty': 0, 'trades': []}
WithSymbol(pos, sym) ==
    IF HasSymbol(pos, sym) THEN pos
    ELSE Append(pos, [Symbol |-> sym, qty |-> 0, trades |-> <<>>])

\* positions after one loop iteration
ProcessTrade(pos, trade) ==
    LET p1 == WithSymbol(pos, trade.Symbol)
        k == IndexOf(p1, trade.Symbol)
        c == ApplyTrade([qty |-> p1[k].qty, trades |-> p1[k].trades], trade)
    IN  [p1 EXCEPT ![k] = [Symbol |-> trade.Symbol, qty |-> c.qty, trades |-> c.trades]]

\* all_trades: the rows of every symbol, in positions.values() order
RECURSIVE AllTrades(_)
AllTrades(pos) ==
    IF pos = <<>> THEN <<>> ELSE Head(pos).trades \o AllTrades(Tail(pos))

\* df_result.sort_values('datetime'): rows by entry date and time
RowBefore(a, b) ==
    a.EntryDate < b.EntryDate \/ (a.EntryDate = b.EntryDate /\ a.EntryTime < b.EntryTime)

InsertRow(s, r) ==
    LET n == Cardinality({ j \in 1..Len(s) : ~RowBefore(r, s[j]) })
    IN  SubSeq(s, 1, n) \o <<r>> \o SubSeq(s, n + 1, Len(s))

RECURSIVE SortRows(_)
SortRows(l) ==
    IF l = <<>> THEN <<>>
    ELSE InsertRow(SortRows(SubSeq(l, 1, Len(l) - 1)), l[Len(l)])

\* what match_trades_fifo returns for the positions it built
MatchResult(pos) == SortRows(AllTrades(pos))

\* the loop of match_trades_fifo over a list of trades, from the positions pos
RECURSIVE MatchLoop(_, _)
MatchLoop(pos, l) ==
    IF l = <<>> THEN pos ELSE MatchLoop(ProcessTrade(pos, Head(l)), Tail(l))

\* match_trades_fifo as a function of the list it is given
match_trades_fifo(consolidated_trades) ==
    MatchResult(MatchLoop(<<>>, SortedTrades(consolidated_trades)))

----------------------------------------------------------------------------
(* update_master_sheet around match_trades_fifo *)

\* df_master['trade_key'] of a row of the master sheet
RowTradeKey(r) == <<r.Symbol, r.Qty, r.Side, r.EntryPrice, r.EntryTime, r.EntryDate>>

\* position_trade_key of a consolidated trade
PositionTradeKey(t) == <<t.Symbol, t.Quantity, t.Side, t.Price, t.Time, t.Date>>

\* new_position_trades: a row with Side 'LONG' for every LONG trade whose key is
\* not a trade_key of the loaded sheet
RECURSIVE NewPositionTrades(_, _)
NewPositionTrades(loaded, ct) ==
    IF ct = <<>> THEN <<>>
    ELSE LET t == Head(ct)
             rest == NewPositionTrades(loaded, Tail(ct))
         IN  IF t.Side \in {"BUY", "LONG"}
                /\ \A k \in 1..Len(loaded) : PositionTradeKey(t) # RowTradeKey(loaded[k])
             THEN <<NewRow(t.Symbol, t.Quantity, "LONG", t.Price, t.Time, t.Date)>> \o rest
             ELSE rest

\* df_master handed to match_trades_fifo: the loaded sheet plus the new LONG rows
DfMasterBeforeMatch(loaded, ct) == loaded \o NewPositionTrades(loaded, ct)

\* drop_duplicates(subset=[Symbol, Qty, Side, Entry Price, Entry Time, Entry Date],
\* keep='first')
RECURSIVE DropDuplicates(_)
DropDuplicates(rows) ==
    IF rows = <<>> THEN <<>>
    ELSE LET front == SubSeq(rows, 1, Len(rows) - 1)
             r == rows[Len(rows)]
         IN  IF \E k \in 1..Len(front) : RowTradeKey(front[k]) = RowTradeKey(r)
             THEN DropDuplicates(front)
             ELSE Append(DropDuplicates(front), r)

\* the 'Trades' sheet update_master_sheet writes: the matcher's result, sorted
\* again by entry date and time, without duplicates
SheetToSave(result) == DropDuplicates(SortRows(result))

\* df_master = match_trades_fifo(df_master, consolidated_trades): the matcher
\* starts from positions = {} and never reads df_master
InitialPositions(dfm) == <<>>

----------------------------------------------------------------------------
(* The state machine *)

Init ==
    /\ master = <<>>
    /\ runs = 0
    /\ ingested = 0
    /\ pc = "idle"
    /\ raw = <<>>
    /\ df_master = <<>>
    /\ trades = <<>>
    /\ i = 0
    /\ positions = <<>>
    /\ given = <<>>
    /\ returned = None
    /\ first = None
    /\ outcome = "none"
    /\ open_positions = None
    /\ folder = {}
    /\ processed = <<>>
    /\ extracted = <<>>
    /\ exists = FALSE
    /\ backup = None
    /\ reset_backup = None
    /\ resets = 0

\* mutation: no backup is written
BackupSkipped(there, file, old) == old

\* the backup file after lines 578-590: a copy of the master file when there is
\* one, else what it was
BackupWritten(there, file, old) == IF there THEN Some(file) ELSE old

\* update_master_sheet up to the entry of the matcher's loop (lines 570-460)
BeginUpdate(consolidated_trades) ==
    /\ df_master' = DfMasterBeforeMatch(master, consolidated_trades)
    /\ positions' = InitialPositions(df_master')
    /\ trades' = SortedTrades(consolidated_trades)
    /\ i' = 0
    /\ ingested' = ingested + Len(consolidated_trades)
    /\ pc' = "matching"
    /\ backup' = BackupWritten(exists, master, backup)
    /\ UNCHANGED <<master, runs, raw, consolidationVars, reportVars,
                   fileVars, exists, reset_backup, resets>>

\* process_folder -> update_master_sheet with a non-empty batch
UpdateMasterSheet ==
    /\ pc = "idle"
    /\ runs < MaxRuns
    /\ outcome = "none" \/ open_positions # None
    /\ \E n \in 1..(IF runs = 0 THEN MaxLen ELSE MaxIngest - ingested) :
         \E input \in InputsOfLen[n] : BeginUpdate(input)

\* one iteration of the matcher's `for trade in trades:`
MatchStep ==
    /\ pc = "matching"
    /\ i < Len(trades)
    /\ positions' = ProcessTrade(positions, trades[i + 1])
    /\ i' = i + 1
    /\ UNCHANGED <<master, runs, ingested, pc, raw, df_master, trades,
                   consolidationVars, reportVars,
                   fileVars, backupVars>>

\* the matcher returns and update_master_sheet writes the master file
SaveMaster ==
    /\ pc = "matching"
    /\ i = Len(trades)
    /\ master' = SheetToSave(MatchResult(positions))
    /\ runs' = runs + 1
    /\ pc' = "idle"
    /\ df_master' = <<>>
    /\ trades' = <<>>
    /\ i' = 0
    /\ positions' = <<>>
    /\ outcome' = "saved"
    /\ open_positions' = None
    /\ exists' = TRUE
    /\ UNCHANGED <<ingested, raw, consolidationVars,
                   fileVars, backup, reset_backup, resets>>

\* mutation: the handler of a failed run writes the rows matched so far
MasterAfterFailurePartial(file, pos) == SheetToSave(MatchResult(pos))

\* the 'Trades' sheet of the master file after `except Exception as e:`: the
\* handler prints the error and the traceback, and writes nothing
MasterAfterFailure(file, pos) == file

\* a statement of update_master_sheet raises before the master file is written
\* (loading the workbook, building the new rows, or an iteration of the
\* matcher): the except clause ends the call
FailRun ==
    /\ pc = "matching"
    /\ master' = MasterAfterFailure(master, positions)
    /\ runs' = runs + 1
    /\ pc' = "idle"
    /\ df_master' = <<>>
    /\ trades' = <<>>
    /\ i' = 0
    /\ positions' = <<>>
    /\ outcome' = "failed"
    /\ open_positions' = None
    /\ UNCHANGED <<ingested, raw, consolidationVars,
                   fileVars, backupVars>>

\* df[df['Exit Qty'].isna() | df['Exit Price'].isna()], as to_dict('records')
check_open_positions(df) ==
    SelectSeq(df, LAMBDA row : row.ExitQty = None \/ row.ExitPrice = None)

\* process_folder calls check_open_positions once update_master_sheet has returned
CheckOpenPositions ==
    /\ pc = "idle"
    /\ outcome \in {"saved", "failed", "failed_backup"}
    /\ open_positions = None
    /\ open_positions' = Some(check_open_positions(master))
    /\ UNCHANGED <<master, runs, ingested, pc, raw, matcherVars, consolidationVars,
                   outcome,
                   fileVars, backupVars>>

Next == UpdateMasterSheet \/ MatchStep \/ SaveMaster \/ FailRun \/ CheckOpenPositions

Spec == Init /\ [][Next]_vars

\* process_folder once gather_all_trades has returned `raw`: the executions are
\* consolidated and handed to update_master_sheet
InitPipeline ==
    /\ master = <<>>
    /\ runs = 0
    /\ ingested = 0
    /\ pc = "gathered"
    /\ raw \in Orderings(TestTrades)
    /\ df_master = <<>>
    /\ trades = <<>>
    /\ i = 0
    /\ positions = <<>>
    /\ given = raw
    /\ returned = None
    /\ first = None
    /\ outcome = "none"
    /\ open_positions = None
    /\ folder = {}
    /\ processed = <<>>
    /\ extracted = <<>>
    /\ exists = FALSE
    /\ backup = None
    /\ reset_backup = None
    /\ resets = 0

ProcessFolder ==
    /\ pc = "gathered"
    /\ raw # <<>>
    /\ df_master' = DfMasterBeforeMatch(master, consolidate_trades(raw))
    /\ positions' = InitialPositions(df_master')
    /\ trades' = SortedTrades(consolidate_trades(raw))
    /\ i' = 0
    /\ ingested' = ingested + Len(consolidate_trades(raw))
    /\ pc' = "matching"
    /\ raw' = SidesRewritten(raw)
    /\ backup' = BackupWritten(exists, master, backup)
    /\ UNCHANGED <<master, runs, consolidationVars, reportVars,
                   fileVars, exists, reset_backup, resets>>

NextPipeline == ProcessFolder \/ MatchStep \/ SaveMaster

SpecPipeline == InitPipeline /\ [][NextPipeline]_vars

----------------------------------------------------------------------------
(* The folder of daily reports: gather_all_trades, manage_processed_files,   *)
(* reset_master_sheet                                                        *)

MaxResets == 1     \* reset_master_sheet calls per behaviour

\* the reports that may be put in the folder, in the order of the date in
\* their names
DocNames ==
    << "DailyTradeReport.20250502.pdf",
       "DailyTradeReport.20250505.pdf",
       "DailyTradeReport.20250506.pdf" >>

\* extract_trades_from_pdf(pdf): the executions of each report; the last
\* report has no trade line
DocTrades(pdf) ==
    CASE pdf = DocNames[1] ->
           << Trade("IONQ", 1, 1, "BUY", 2, <<1, 1>>),
              Trade("IONQ", 1, 2, "SELL", 1, <<2, 1>>) >>
      [] pdf = DocNames[2] ->
           << Trade("IONQ", 2, 1, "SELL", 1, <<1, 1>>),
              Trade("CRWD", 2, 2, "BUY", 1, <<1, 1>>) >>
      [] OTHER -> <<>>

\* glob(...) sorted by the date in the file name
PdfFiles(dir) == SelectSeq(DocNames, LAMBDA f : f \in dir)

\* mutation: no file counts as processed
IsProcessedNever(filename, processed_files) == FALSE

\* filename in processed_files
IsProcessed(filename, processed_files) ==
    \E k \in 1..Len(processed_files) : processed_files[k] = filename

\* manage_processed_files(folder, pdf_file): the list in the tracking file
\* after the call
manage_processed_files(tracked, pdf_file) ==
    IF \E k \in 1..Len(tracked) : tracked[k] = pdf_file
    THEN tracked
    ELSE Append(tracked, pdf_file)

\* the loop of gather_all_trades over pdf_files; processed_files is the list
\* read before the loop, acc the trades, the tracking file and the files
\* extracted so far
RECURSIVE GatherLoop(_, _, _)
GatherLoop(pdf_files, processed_files, acc) ==
    IF pdf_files = <<>> THEN acc
    ELSE LET pdf == Head(pdf_files)
         IN  IF IsProcessed(pdf, processed_files)
             THEN GatherLoop(Tail(pdf_files), processed_files, acc)
             ELSE GatherLoop(Tail(pdf_files), processed_files,
                             [all_trades |-> acc.all_trades \o DocTrades(pdf),
                              tracked |-> manage_processed_files(acc.tracked, pdf),
                              extracted |-> Append(acc.extracted, pdf)])

gather_all_trades(dir, tracked) ==
    GatherLoop(PdfFiles(dir), tracked,
               [all_trades |-> <<>>, tracked |-> tracked, extracted |-> <<>>])

\* the last process_folder call is over (check_open_positions included)
RunOver ==
    /\ pc = "idle"
    /\ outcome \in {"saved", "failed", "failed_backup"} => open_positions # None

\* a report is saved into the folder
AddDocument ==
    /\ pc = "idle"
    /\ \E f \in { DocNames[k] : k \in 1..Len(DocNames) } \ folder :
          folder' = folder \cup {f}
    /\ UNCHANGED <<master, runs, ingested, pc, raw, matcherVars, consolidationVars,
                   reportVars, processed, extracted, backupVars>>

\* process_folder up to `if not all_trades: return`
GatherAllTrades ==
    /\ RunOver
    /\ runs < MaxRuns
    /\ LET g == gather_all_trades(folder, processed)
       IN  /\ raw' = g.all_trades
           /\ processed' = g.tracked
           /\ extracted' = g.extracted
           /\ pc' = IF g.all_trades = <<>> THEN "idle" ELSE "gathered"
    /\ UNCHANGED <<master, runs, ingested, matcherVars, consolidationVars,
                   reportVars, folder, backupVars>>

\* update_master_sheet raises while it reads the master file or writes the
\* backup (lines 578-590); a backup file half written is no backup
FailBackup ==
    /\ pc = "gathered"
    /\ raw # <<>>
    /\ exists
    /\ raw' = SidesRewritten(raw)
    /\ master' = MasterAfterFailure(master, positions)
    /\ backup' \in {backup, None}
    /\ runs' = runs + 1
    /\ pc' = "idle"
    /\ outcome' = "failed_backup"
    /\ open_positions' = None
    /\ UNCHANGED <<ingested, matcherVars, consolidationVars, fileVars,
                   exists, reset_backup, resets>>

\* reset_master_sheet: the pre-reset backup, the empty sheets, the tracking
\* files cleared, the backup file removed
ResetMasterSheet ==
    /\ RunOver
    /\ resets < MaxResets
    /\ reset_backup' = BackupWritten(exists, master, reset_backup)
    /\ master' = <<>>
    /\ exists' = TRUE
    /\ processed' = <<>>
    /\ backup' = None
    /\ resets' = resets + 1
    /\ outcome' = "reset"
    /\ UNCHANGED <<runs, ingested, pc, raw, matcherVars, consolidationVars,
                   open_positions, folder, extracted>>

\* reset_master_sheet raises while it writes the pre-reset backup (lines 965-977)
FailReset ==
    /\ RunOver
    /\ resets < MaxResets
    /\ exists
    /\ resets' = resets + 1
    /\ outcome' = "reset_failed"
    /\ UNCHANGED <<master, runs, ingested, pc, raw, matcherVars, consolidationVars,
                   open_positions, fileVars, exists, backup, reset_backup>>

NextFolder ==
    \/ AddDocument \/ GatherAllTrades \/ ProcessFolder \/ FailBackup
    \/ MatchStep \/ SaveMaster \/ FailRun \/ CheckOpenPositions
    \/ ResetMasterSheet \/ FailReset

SpecFolder == Init /\ [][NextFolder]_vars

\* consolidate_trades called on its own, as test_consolidate_trades calls it
InitConsolidate ==
    /\ master = <<>>
    /\ runs = 0
    /\ ingested = 0
    /\ pc = "gathered"
    /\ raw \in RawInputs
    /\ df_master = <<>>
    /\ trades = <<>>
    /\ i = 0
    /\ positions = <<>>
    /\ given = raw
    /\ returned = None
    /\ first = None
    /\ outcome = "none"
    /\ open_positions = None
    /\ folder = {}
    /\ processed = <<>>
    /\ extracted = <<>>
    /\ exists = FALSE
    /\ backup = None
    /\ reset_backup = None
    /\ resets = 0

\* consolidated = consolidate_trades(trades)
ConsolidateTrades ==
    /\ pc = "gathered"
    /\ returned' = Some(CallConsolidate(raw))
    /\ first' = returned'
    /\ raw' = ListAfterCall(raw)
    /\ pc' = "consolidated"
    /\ UNCHANGED <<master, runs, ingested, matcherVars, given, reportVars,
                   fileVars, backupVars>>

\* consolidate_trades(consolidated): a second call, on the list the first returned
ConsolidateOwnOutput ==
    /\ pc = "consolidated"
    /\ Val(returned).raised = ""
    /\ returned' = Some(CallConsolidate(Val(returned).value))
    /\ pc' = "reconsolidated"
    /\ UNCHANGED <<master, runs, ingested, raw, matcherVars, given, first, reportVars,
                   fileVars, backupVars>>

\* consolidate_trades(trades): a second call, on the list given to the first
ConsolidateSameList ==
    /\ pc = "consolidated"
    /\ returned' = Some(CallConsolidate(raw))
    /\ raw' = ListAfterCall(raw)
    /\ pc' = "repeated"
    /\ UNCHANGED <<master, runs, ingested, matcherVars, given, first, reportVars,
                   fileVars, backupVars>>

NextConsolidate == ConsolidateTrades \/ ConsolidateOwnOutput \/ ConsolidateSameList

SpecConsolidate == InitConsolidate /\ [][NextConsolidate]_vars

\* match_trades_fifo called on its own, as test_match_trades_fifo calls it,
\* with an empty df_master
InitMatch ==
    /\ master = <<>>
    /\ runs = 0
    /\ ingested = 0
    /\ pc = "called"
    /\ raw = <<>>
    /\ df_master = <<>>
    /\ trades = <<>>
    /\ i = 0
    /\ positions = <<>>
    /\ given \in MatchInputs
    /\ returned = None
    /\ first = None
    /\ outcome = "none"
    /\ open_positions = None
    /\ folder = {}
    /\ processed = <<>>
    /\ extracted = <<>>
    /\ exists = FALSE
    /\ backup = None
    /\ reset_backup = None
    /\ resets = 0

\* match_trades_fifo up to its loop: positions = {} and the sort of the trades
EnterMatch ==
    /\ pc = "called"
    /\ positions' = InitialPositions(df_master)
    /\ trades' = SortedTrades(given)
    /\ i' = 0
    /\ pc' = "matching"
    /\ UNCHANGED <<master, runs, ingested, raw, df_master, consolidationVars, reportVars,
                   fileVars, backupVars>>

\* the loop is over: the rows are collected, sorted and returned
ReturnMatch ==
    /\ pc = "matching"
    /\ i = Len(trades)
    /\ returned' = Some([raised |-> "", value |-> MatchResult(positions)])
    /\ pc' = "returned"
    /\ UNCHANGED <<master, runs, ingested, raw, matcherVars, given, first, reportVars,
                   fileVars, backupVars>>

\* the caller keeps the result and calls match_trades_fifo again on the same list
CallAgain ==
    /\ pc = "returned"
    /\ first = None
    /\ first' = returned
    /\ returned' = None
    /\ pc' = "called"
    /\ UNCHANGED <<master, runs, ingested, raw, matcherVars, given, reportVars,
                   fileVars, backupVars>>

NextMatch == EnterMatch \/ MatchStep \/ ReturnMatch \/ CallAgain

SpecMatch == InitMatch /\ [][NextMatch]_vars

----------------------------------------------------------------------------
(* The ledger vocabulary of the specification, read off the stored rows *)

\* the rows of the ledger being built by the matcher
Rows == AllTrades(positions)

RowsOfSymbol(rows, sym) == SelectSeq(rows, LAMBDA r : r.Symbol = sym)

\* position_type = "LONG" if row['Side'] in ['BUY', 'LONG'] else "SHORT"
IsLongRow(r) == r.Side \in {"BUY", "LONG"}

EntryQuantity(r) == Abs(r.Qty)
ExitQuantity(r) == IF r.ExitQty = None THEN 0 ELSE Abs(Val(r.ExitQty))
OpenQuantity(r) == EntryQuantity(r) - ExitQuantity(r)
IsOpen(r) == r.ExitQty = None \/ ExitQuantity(r) < EntryQuantity(r)
FullyClosed(r) == r.ExitQty # None /\ ExitQuantity(r) = EntryQuantity(r)
PartlyClosed(r) == r.ExitQty # None /\ ExitQuantity(r) < EntryQuantity(r)

\* the row is of the direction a trade of this side offsets
Opposes(r, side) == IsLongRow(r) # (side = "LONG")

\* sum over a symbol's rows of the signed open quantity (+ LONG, - SHORT)
SignedRemaining(rows, sym) ==
    SumSeq([k \in 1..Len(rows) |->
              IF rows[k].Symbol # sym THEN 0
              ELSE IF IsLongRow(rows[k]) THEN OpenQuantity(rows[k])
              ELSE -OpenQuantity(rows[k])])

\* test_balance_calculation: balances[symbol] += qty + exit_qty
TestBalance(rows, sym) ==
    SumSeq([k \in 1..Len(rows) |->
              IF rows[k].Symbol # sym THEN 0
              ELSE rows[k].Qty
                   + (IF rows[k].ExitQty = None THEN 0 ELSE Val(rows[k].ExitQty))])

\* sum of the signed quantities (+ LONG, - SHORT) of a symbol's trades
SignedTrades(ts, sym) ==
    SumSeq([k \in 1..Len(ts) |->
              IF ts[k].Symbol # sym THEN 0
              ELSE IF ts[k].Side = "LONG" THEN ts[k].Quantity
              ELSE -ts[k].Quantity])

\* the trades the matcher's loop has processed
Processed == SubSeq(trades, 1, i)

\* the running balance the matcher keeps for a symbol (0 before its first trade)
RunningBalance(sym) ==
    IF HasSymbol(positions, sym) THEN positions[IndexOf(positions, sym)].qty ELSE 0

\* a step of the matcher's loop
LoopStep == pc = "matching" /\ i' = i + 1

----------------------------------------------------------------------------
(* Claims *)

\* C1: conservation. After any prefix of the sorted trades, for every symbol the
\* signed open quantity of its rows (spec form: magnitudes and direction; test
\* form: Qty + Exit Qty) equals the signed sum of its processed trades, which is
\* also the matcher's running balance.
C1_Conservation ==
    pc = "matching" =>
        \A sym \in Symbols :
            /\ SignedRemaining(Rows, sym) = SignedTrades(Processed, sym)
            /\ TestBalance(Rows, sym) = SignedTrades(Processed, sym)
            /\ RunningBalance(sym) = SignedTrades(Processed, sym)

\* three trades processed, leaving a partly closed lot and a SHORT row of one symbol
C1_Witness ==
    /\ pc = "matching"
    /\ i >= 3
    /\ \E a, b \in 1..Len(Rows) :
         /\ Rows[a].Symbol = Rows[b].Symbol
         /\ PartlyClosed(Rows[a])
         /\ Rows[b].Side = "SELL"

\* C2: FIFO for LONG lots. Of two LONG lots of a symbol, the newer one has an
\* exit only if the older one is fully closed.
C2_FifoLongLots ==
    \A a, b \in 1..Len(Rows) :
        ( /\ Rows[a].Symbol = Rows[b].Symbol
          /\ IsLongRow(Rows[a]) /\ IsLongRow(Rows[b])
          /\ RowBefore(Rows[a], Rows[b])
          /\ Rows[b].ExitQty # None )
        => FullyClosed(Rows[a])

\* C3: FIFO for SHORT lots. Of two SHORT lots of a symbol, the newer one has an
\* exit only if the older one is fully closed.
C3_FifoShortLots ==
    \A a, b \in 1..Len(Rows) :
        ( /\ Rows[a].Symbol = Rows[b].Symbol
          /\ ~IsLongRow(Rows[a]) /\ ~IsLongRow(Rows[b])
          /\ RowBefore(Rows[a], Rows[b])
          /\ Rows[b].ExitQty # None )
        => FullyClosed(Rows[a])

\* C4: partially closed lots stay eligible. A trade that opens a new row leaves
\* no opposite-direction lot of its symbol with open quantity, and the new row
\* holds the trade quantity less the open quantity those lots had.
C4_PartialLotsEligible ==
    [][ LoopStep =>
        LET t == trades[i + 1]
            before == RowsOfSymbol(Rows, t.Symbol)
            after == RowsOfSymbol(Rows', t.Symbol)
            open == SumSeq([k \in 1..Len(before) |->
                              IF Opposes(before[k], t.Side)
                              THEN OpenQuantity(before[k]) ELSE 0])
        IN  Len(after) > Len(before) =>
              /\ \A k \in 1..Len(before) :
                    Opposes(before[k], t.Side) => FullyClosed(after[k])
              /\ EntryQuantity(after[Len(after)]) = t.Quantity - open
      ]_vars

\* C5: prior ledger state is used. When a run of one trade is saved and the
\* master sheet held open lots of the trade's symbol and of the opposite
\* direction, entered no later than the trade, one of them has received an exit.
C5_PriorLedgerUsed ==
    [][ (pc = "matching" /\ pc' = "idle" /\ outcome' = "saved" /\ Len(trades) = 1) =>
        LET t == trades[1]
            candidate(r) == /\ r.Symbol = t.Symbol
                            /\ Opposes(r, t.Side)
                            /\ IsOpen(r)
                            /\ r.EntryDate <= t.Date
        IN  (\E k \in 1..Len(master) : candidate(master[k])) =>
              \E k \in 1..Len(master) :
                 /\ candidate(master[k])
                 /\ \E j \in 1..Len(master') :
                       /\ RowTradeKey(master'[j]) = RowTradeKey(master[k])
                       /\ ExitQuantity(master'[j]) > ExitQuantity(master[k])
      ]_vars

\* C6: ledger rows are permanent. Every row of the master sheet is still in the
\* master sheet after any step.
C6_RowsPermanent ==
    [][ \A k \in 1..Len(master) :
           \E j \in 1..Len(master') :
              RowTradeKey(master'[j]) = RowTradeKey(master[k]) ]_vars

\* C7: the exit never exceeds the entry. Every row, while matching and in the
\* master sheet, has no exit or an exit magnitude between 0 and its entry
\* magnitude.
C7_ExitWithinEntry ==
    \A rows \in {Rows, master} :
        \A k \in 1..Len(rows) :
            \/ rows[k].ExitQty = None
            \/ (0 <= ExitQuantity(rows[k]) /\ ExitQuantity(rows[k]) <= EntryQuantity(rows[k]))

\* a lot closed in part and a lot closed in full, side by side
C7_Witness ==
    /\ pc = "matching"
    /\ \E a, b \in 1..Len(Rows) : PartlyClosed(Rows[a]) /\ FullyClosed(Rows[b])

\* C8: exit-field update policy. When a trade at another price meets a partly
\* closed lot that is the oldest open opposite lot of its symbol, the lot's exit
\* quantity grows by the fill and its exit price, time and date become the trade's.
C8_SecondFillOverwrites ==
    [][ LoopStep =>
        LET t == trades[i + 1]
            before == RowsOfSymbol(Rows, t.Symbol)
            after == RowsOfSymbol(Rows', t.Symbol)
        IN  \A k \in 1..Len(before) :
              ( /\ Opposes(before[k], t.Side)
                /\ PartlyClosed(before[k])
                /\ before[k].ExitPrice # Some(t.Price)
                /\ \A j \in 1..Len(before) :
                      (j # k /\ Opposes(before[j], t.Side) /\ IsOpen(before[j]))
                      => RowBefore(before[k], before[j]) )
              => /\ ExitQuantity(after[k]) =
                      ExitQuantity(before[k]) + Min(t.Quantity, OpenQuantity(before[k]))
                 /\ after[k].ExitPrice = Some(t.Price)
                 /\ after[k].ExitTime = Some(t.Time)
                 /\ after[k].ExitDate = Some(t.Date)
      ]_vars

\* a SHORT trade is next and its symbol has no LONG lot with open quantity
UncoveredShortStep ==
    /\ LoopStep
    /\ trades[i + 1].Side = "SHORT"
    /\ \A k \in 1..Len(Rows) :
          (Rows[k].Symbol = trades[i + 1].Symbol /\ IsLongRow(Rows[k]))
          => ~IsOpen(Rows[k])

\* the step adds exactly one row, a SHORT row with the given notes and no exit
OneNewShortRow(notes) ==
    LET t == trades[i + 1]
        before == RowsOfSymbol(Rows, t.Symbol)
        after == RowsOfSymbol(Rows', t.Symbol)
    IN  /\ Len(Rows') = Len(Rows) + 1
        /\ Len(after) = Len(before) + 1
        /\ SubSeq(after, 1, Len(before)) = before
        /\ ~IsLongRow(after[Len(after)])
        /\ after[Len(after)].Side = "SELL"
        /\ after[Len(after)].Notes = notes
        /\ after[Len(after)].ExitQty = None

PipelineDone == pc = "idle" /\ runs = 1

----------------------------------------------------------------------------
(* Claims on consolidate_trades *)

\* the direction of an execution: buy-side (BUY, or already LONG) is LONG,
\* sell-side (SELL, or already SHORT) is SHORT
Direction(side) == IF side \in {"BUY", "LONG"} THEN "LONG" ELSE "SHORT"

\* the (symbol, date, direction) key of an execution
ExecKey(e) == <<e.Symbol, e.Date, Direction(e.Side)>>

\* every execution has a positive quantity and a positive price
ValidExecutions(ts) ==
    \A k \in 1..Len(ts) : ts[k].Quantity > 0 /\ ts[k].Price[1] > 0

\* every execution carries a Side string of the extractors
IngestionSides(ts) == \A k \in 1..Len(ts) : ts[k].Side \in {"BUY", "SELL"}

\* the first call has returned, for valid executions as the extractors give them
ConsolidatedValid ==
    first # None /\ ValidExecutions(given) /\ IngestionSides(given)

\* the list the first call returned
Output == Val(first).value

\* the executions of the group of a consolidated trade, as indices of `given`
Group(t) == { j \in 1..Len(given) : ExecKey(given[j]) = Key(t) }

RECURSIVE SumOver(_, _)
SumOver(S, f) ==
    IF S = {} THEN 0
    ELSE LET x == CHOOSE x \in S : TRUE IN f[x] + SumOver(S \ {x}, f)

RECURSIVE DenProduct(_)
DenProduct(ts) == IF ts = <<>> THEN 1 ELSE Head(ts).Price[2] * DenProduct(Tail(ts))

\* sum of quantity_i * price_i over a group divided by the sum of quantity_i
GroupAverage(G) ==
    LET D == DenProduct(given)
        qp == [j \in 1..Len(given) |->
                 given[j].Quantity * given[j].Price[1] * (D \div given[j].Price[2])]
        q == [j \in 1..Len(given) |-> given[j].Quantity]
    IN  Rat(SumOver(G, qp), D * SumOver(G, q))

\* C11: consolidation grouping. For executions with BUY/SELL sides and positive
\* quantities and prices, consolidate_trades returns one trade per distinct
\* (symbol, date, direction) key of its input and no other; the quantity of each
\* is the sum of the quantities of the executions with its key, and is > 0.
C11_Grouping ==
    ConsolidatedValid =>
        /\ Val(first).raised = ""
        /\ \A a, b \in 1..Len(Output) : a # b => Key(Output[a]) # Key(Output[b])
        /\ { Key(Output[k]) : k \in 1..Len(Output) }
             = { ExecKey(given[j]) : j \in 1..Len(given) }
        /\ \A k \in 1..Len(Output) :
              /\ Output[k].Quantity
                   = SumOver(Group(Output[k]), [j \in 1..Len(given) |-> given[j].Quantity])
              /\ Output[k].Quantity > 0

\* three executions, two of one key around one of another key, became two trades
C11_Witness ==
    /\ pc = "consolidated"
    /\ ConsolidatedValid
    /\ Len(given) = 3
    /\ ExecKey(given[1]) = ExecKey(given[3])
    /\ ExecKey(given[1]) # ExecKey(given[2])
    /\ given[1].Quantity # given[3].Quantity
    /\ Len(Output) = 2
    /\ Output[1].Quantity = 3

\* C12: weighted-average price. The price of each consolidated trade is the sum
\* of quantity * price over the executions of its group divided by the sum of
\* their quantities, exactly, in whatever order the executions were given.
C12_WeightedAverage ==
    ConsolidatedValid =>
        \A k \in 1..Len(Output) : Output[k].Price = GroupAverage(Group(Output[k]))

\* three executions of one group at two prices, whose average is not a whole number
C12_Witness ==
    /\ pc = "consolidated"
    /\ ConsolidatedValid
    /\ Len(given) = 3
    /\ Len(Output) = 1
    /\ given[1].Price # given[2].Price
    /\ given[1].Quantity # given[3].Quantity
    /\ Output[1].Price[2] > 1

\* C13: representative time. The time of a consolidated trade is the earliest
\* time of its group's executions for a LONG trade, the latest for a SHORT trade.
C13_RepresentativeTime ==
    ConsolidatedValid =>
        \A k \in 1..Len(Output) :
            LET times == { given[j].Time : j \in Group(Output[k]) }
            IN  /\ Output[k].Time \in times
                /\ Output[k].Side = "LONG" => \A t \in times : Output[k].Time <= t
                /\ Output[k].Side = "SHORT" => \A t \in times : Output[k].Time >= t

\* a SHORT group of three executions whose latest is neither its first nor its last
C13_Witness ==
    /\ pc = "consolidated"
    /\ ConsolidatedValid
    /\ Len(given) = 3
    /\ \A j \in 1..3 : given[j].Side = "SELL"
    /\ given[1].Time < given[2].Time
    /\ given[3].Time < given[2].Time
    /\ Len(Output) = 1
    /\ Output[1].Time = given[2].Time

\* C14: direction is preserved. Every execution's direction is carried by a
\* consolidated trade of its symbol and date, and every consolidated trade
\* carries the key of one of the executions: buy-side (BUY or LONG) gives LONG,
\* sell-side (SELL or SHORT) gives SHORT.
C14_DirectionPreserved ==
    (first # None /\ ValidExecutions(given)) =>
        /\ Val(first).raised = ""
        /\ \A j \in 1..Len(given) :
              \E k \in 1..Len(Output) : Key(Output[k]) = ExecKey(given[j])
        /\ \A k \in 1..Len(Output) :
              \E j \in 1..Len(given) : ExecKey(given[j]) = Key(Output[k])

\* the key, quantity and price of every trade of a list
Essence(ts) == { <<Key(ts[k]), ts[k].Quantity, ts[k].Price>> : k \in 1..Len(ts) }

\* C15: consolidation idempotence. consolidate_trades applied to its own output
\* returns the same set of trades, each with the same key, quantity and price.
C15_Idempotent ==
    (pc = "reconsolidated" /\ ConsolidatedValid) =>
        /\ Val(returned).raised = ""
        /\ Essence(Val(returned).value) = Essence(Output)

\* C16: consolidation is a pure transform. The caller's list is as it was
\* before the call, and a second call on it returns what the first returned.
C16_Pure ==
    ConsolidatedValid =>
        /\ raw = given
        /\ pc = "repeated" => returned = first

\* C17: when an execution has a quantity <= 0 or a price <= 0,
\* consolidate_trades raises InvalidInput and returns nothing.
C17_InvalidInput ==
    (first # None /\ ~ValidExecutions(given)) =>
        /\ Val(first).raised = "InvalidInput"
        /\ Output = <<>>

----------------------------------------------------------------------------
(* Claims on the matcher's input, the report and the persistence *)

\* the trades are ascending by (date, time)
Ascending(ts) == \A k \in 1..(Len(ts) - 1) : ~Before(ts[k + 1], ts[k])

\* C18: the matcher does not sort for the caller. For a trade list that is not
\* ascending by (date, time), or that holds a trade of quantity <= 0, the call
\* fails with InvalidInput and the ledger it was given is what it leaves.
C18_InvalidInputRejected ==
    ( /\ pc = "returned"
      /\ \/ ~Ascending(given)
         \/ \E k \in 1..Len(given) : given[k].Quantity <= 0 )
    => /\ Val(returned).raised = "InvalidInput"
       /\ Val(returned).value = df_master

\* C19: open-position report. check_open_positions returns exactly the rows of
\* the master sheet whose exit quantity is null or smaller than the entry
\* quantity: a partly closed lot is reported, a fully closed lot is not.
C19_OpenReport ==
    open_positions # None => Val(open_positions) = SelectSeq(master, IsOpen)

\* a step of a run changes the rows of the master file
MasterWritten == master' # master

\* a step ends a run by its except clause
RunFails == pc = "matching" /\ outcome' = "failed" /\ runs' = runs + 1

\* C20: atomic persistence. The master file changes only in the step that
\* follows the matching of the whole batch, and a run that fails before or
\* while matching leaves the master file as it was.
C20_AtomicPersistence ==
    [][ /\ MasterWritten =>
             (pc = "matching" /\ i = Len(trades) /\ trades # <<>> /\ outcome' = "saved")
        /\ RunFails => master' = master
      ]_vars

\* a second run has failed and the sheet still holds the row the first run saved
C20_Witness ==
    /\ pc = "idle"
    /\ outcome = "failed"
    /\ runs = 2
    /\ ingested = 2
    /\ Len(master) = 1

----------------------------------------------------------------------------
(* Claims on the folder of reports and on the files next to the master file *)

\* the file names of a list, as a set
Names(list) == { list[k] : k \in 1..Len(list) }

\* a step of gather_all_trades: the only step from "idle" that is neither a new
\* report, nor a reset, nor the open-position report
GatherStep ==
    /\ pc = "idle"
    /\ folder' = folder
    /\ resets' = resets
    /\ open_positions' = open_positions

\* C21: idempotent re-run guard. gather_all_trades extracts no file whose name
\* is in the processed list; when every file of the folder is in the list, the
\* run gathers no trade and ends with the master file as it was; the processed
\* list never holds a name twice.
C21_RerunGuard ==
    [][ /\ GatherStep =>
             /\ Names(extracted') \cap Names(processed) = {}
             /\ folder \subseteq Names(processed) =>
                   /\ raw' = <<>>
                   /\ extracted' = <<>>
                   /\ pc' = "idle"
                   /\ master' = master
                   /\ exists' = exists
        /\ \A a, b \in 1..Len(processed') : a # b => processed'[a] # processed'[b]
      ]_vars

\* a run has found every report of the folder processed, after a run that saved rows
C21_Witness ==
    /\ pc = "idle"
    /\ runs >= 1
    /\ master # <<>>
    /\ Cardinality(folder) >= 2
    /\ folder \subseteq Names(processed)
    /\ extracted = <<>>
    /\ raw = <<>>

\* an execution has left a mark in the rows: a lot of its symbol entered or
\* exited on its date
Persisted(e, rows) ==
    \E k \in 1..Len(rows) :
        /\ rows[k].Symbol = e.Symbol
        /\ rows[k].EntryDate = e.Date \/ rows[k].ExitDate = Some(e.Date)

\* C26: no trade loss across the ingestion guard. When no run is in progress,
\* every execution of every report in the processed list has left its mark in
\* the master file.
C26_NoTradeLoss ==
    pc = "idle" =>
        \A f \in Names(processed) :
            \A k \in 1..Len(DocTrades(f)) : Persisted(DocTrades(f)[k], master)

\* C27: backup before overwrite. When update_master_sheet or reset_master_sheet
\* overwrites an existing master file, the backup written earlier in the call
\* holds the rows the master file had; when the backup cannot be written, the
\* master file is left as it was.
C27_BackupBeforeOverwrite ==
    [][ /\ (exists /\ pc = "matching" /\ outcome' = "saved") => backup = Some(master)
        /\ (exists /\ resets' = resets + 1 /\ outcome' = "reset")
              => reset_backup' = Some(master)
        /\ ( \/ (pc = "gathered" /\ outcome' = "failed_backup")
             \/ (resets' = resets + 1 /\ outcome' = "reset_failed") )
              => (master' = master /\ exists' = exists)
      ]_vars

\* a second run has saved over the rows of the first, which the backup holds
C27_Witness ==
    /\ pc = "idle"
    /\ outcome = "saved"
    /\ runs = 2
    /\ backup # None
    /\ Val(backup) # <<>>
    /\ Val(backup) # master

----------------------------------------------------------------------------
(* Claims on match_trades_fifo as a function of its list *)

\* no two trades of one symbol at the same date and time
DistinctTimes(ts) ==
    \A a, b \in 1..Len(ts) :
        (a # b /\ ts[a].Symbol = ts[b].Symbol)
            => <<ts[a].Date, ts[a].Time>> # <<ts[b].Date, ts[b].Time>>

\* the ledger: the rows of each symbol, in their order
Ledger(rows) == [sym \in Symbols |-> RowsOfSymbol(rows, sym)]

\* C22: determinism and order-insensitivity. For a list in which no two trades
\* of one symbol share (date, time), match_trades_fifo returns the same ledger
\* for every permutation of the list, and a second call on the same list
\* returns what the first returned.
C22_OrderInsensitive ==
    pc = "returned" =>
        /\ DistinctTimes(given) =>
              \A p \in Orderings(given) :
                  Ledger(match_trades_fifo(p)) = Ledger(Val(returned).value)
        /\ first # None => returned = first

\* a second call has returned for three trades given out of order, one of which
\* has offset another
C22_Witness ==
    /\ pc = "returned"
    /\ first # None
    /\ Len(given) = 3
    /\ DistinctTimes(given)
    /\ ~Ascending(given)
    /\ \E k \in 1..Len(Val(returned).value) : Val(returned).value[k].ExitQty # None
    /\ \E k \in 1..Len(Val(returned).value) : Val(returned).value[k].ExitQty = None

\* C23: no trade is silently skipped. Every trade of positive quantity that the
\* loop of match_trades_fifo processes, whatever its Side string, changes the
\* rows (an exit or a new row), and the result for a non-empty list of trades
\* of positive quantity is not empty.
C23_NoTradeSkipped ==
    [][ /\ (pc = "matching" /\ i' = i + 1 /\ trades[i + 1].Quantity > 0)
            => AllTrades(positions') # AllTrades(positions)
        /\ (pc = "matching" /\ pc' = "returned"
               /\ \A k \in 1..Len(given) : given[k].Quantity > 0)
            => Val(returned').value # <<>>
      ]_vars

----------------------------------------------------------------------------
(* Claims on the rows one trade of the loop makes and leaves *)

\* the trade a step of the loop processes, and its symbol's rows before and after
StepTrade == trades[i + 1]
RowsBefore == RowsOfSymbol(Rows, StepTrade.Symbol)
RowsAfter == RowsOfSymbol(AllTrades(positions'), StepTrade.Symbol)

\* the quantity the step has offset against rows that existed before it
StepOffset ==
    SumSeq([k \in 1..Len(RowsBefore) |->
              ExitQuantity(RowsAfter[k]) - ExitQuantity(RowsBefore[k])])

StepLeftover == StepTrade.Quantity - StepOffset

\* C24: new-row rule. A step of the loop creates a row if and only if quantity
\* is left over after the trade's offsets, and then exactly one row, last of its
\* symbol: of the trade's direction, with the leftover as entry quantity, the
\* trade's price, time and date and no exit. A trade wholly absorbed creates no
\* row.
C24_NewRowRule ==
    [][ LoopStep =>
          /\ StepLeftover >= 0
          /\ Len(RowsAfter) = Len(RowsBefore) + (IF StepLeftover > 0 THEN 1 ELSE 0)
          /\ StepLeftover > 0 =>
                LET r == RowsAfter[Len(RowsAfter)] IN
                /\ r.Side = (IF StepTrade.Side = "LONG" THEN "BUY" ELSE "SELL")
                /\ r.Qty = (IF StepTrade.Side = "LONG" THEN StepLeftover ELSE -StepLeftover)
                /\ r.EntryPrice = StepTrade.Price
                /\ r.EntryTime = StepTrade.Time
                /\ r.EntryDate = StepTrade.Date
                /\ r.ExitQty = None /\ r.ExitPrice = None
                /\ r.ExitTime = None /\ r.ExitDate = None
      ]_vars

\* the last trade processed has offset an earlier row and opened a row with a
\* part of its quantity only
C24_Witness ==
    /\ pc = "matching"
    /\ i >= 2
    /\ LET t == trades[i]
           rows == RowsOfSymbol(Rows, t.Symbol) IN
       /\ Len(rows) >= 2
       /\ rows[Len(rows)].EntryDate = t.Date
       /\ rows[Len(rows)].EntryTime = t.Time
       /\ rows[Len(rows)].ExitQty = None
       /\ EntryQuantity(rows[Len(rows)]) < t.Quantity
       /\ \E k \in 1..(Len(rows) - 1) :
             /\ rows[k].ExitDate = Some(t.Date)
             /\ rows[k].ExitTime = Some(t.Time)

\* C25: closed lots are frozen. A step of the loop leaves every fully closed
\* row as it was, and leaves the symbol, side, entry quantity, entry price,
\* entry date and entry time of every row as they were.
C25_ClosedLotsFrozen ==
    [][ LoopStep =>
          \A sym \in Symbols :
              LET before == RowsOfSymbol(Rows, sym)
                  after == RowsOfSymbol(AllTrades(positions'), sym) IN
              /\ Len(after) >= Len(before)
              /\ \A k \in 1..Len(before) :
                    /\ FullyClosed(before[k]) => after[k] = before[k]
                    /\ after[k].Symbol = before[k].Symbol
                    /\ after[k].Side = before[k].Side
                    /\ after[k].Qty = before[k].Qty
                    /\ after[k].EntryPrice = before[k].EntryPrice
                    /\ after[k].EntryDate = before[k].EntryDate
                    /\ after[k].EntryTime = before[k].EntryTime
      ]_vars

\* a trade that opposes a fully closed row of its symbol has been processed after
\* the trade that closed the row
C25_Witness ==
    /\ pc = "matching"
    /\ i >= 3
    /\ LET t == trades[i] IN
       \E k \in 1..Len(Rows) :
           /\ Rows[k].Symbol = t.Symbol
           /\ FullyClosed(Rows[k])
           /\ Opposes(Rows[k], t.Side)
           /\ <<Val(Rows[k].ExitDate), Val(Rows[k].ExitTime)>> # <<t.Date, t.Time>>

====
